---- MODULE Spec2Model ----
(***************************************************************************)
(* The roller-coaster track store (client/src/lib/stores/useRollerCoaster)  *)
(* as a state machine: one action per store operation.  Coordinates are     *)
(* JavaScript numbers; they are kept here in fixed point, Scale parts per   *)
(* unit, so that the loop geometry is computed and not assumed.             *)
(***************************************************************************)
EXTENDS Integers, Sequences, FiniteSets, TLC

VARIABLES
    mode, trackPoints, selectedPointId, rideProgress, isRiding, rideSpeed,
    isDraggingPoint, isAddingPoints, isLooped, hasChainLift,
    showWoodSupports, isNightMode, cameraTarget,
    pointCounter,
    lastOp, opCount

\* the fields of the zustand store
store == <<mode, trackPoints, selectedPointId, rideProgress, isRiding, rideSpeed,
           isDraggingPoint, isAddingPoints, isLooped, hasChainLift,
           showWoodSupports, isNightMode, cameraTarget>>

vars == <<store, pointCounter, lastOp, opCount>>

----------------------------------------------------------------------------
\* Bounds of the exploration

\* number of store operations in one explored session
MaxOps == 4

\* id arguments handed to the operations are point-1 .. point-MaxIdArg
MaxIdArg == 2

\* fixed-point resolution of a coordinate (parts per unit)
Scale == 100

----------------------------------------------------------------------------
\* Values

NULL == "null"

Vec(x, y, z) == [x |-> x, y |-> y, z |-> z]

\* `point-${n}`
PointId(n) == "point-" \o ToString(n)

CoasterMode == {"build", "ride", "preview"}

\* a Vector3 object the caller holds: its coordinates and which object it is
CallerVector(ref, x, y, z) == [x |-> x, y |-> y, z |-> z, ref |-> ref]

\* positions the input handlers pass in (fixed point)
Positions == {CallerVector(1, 0, 0, 0), CallerVector(2, 5 * Scale, 0, 0),
              CallerVector(3, 0, 4 * Scale, -3 * Scale)}

\* coordinates a caller writes into a Vector3 it holds
CallerMutations == {Vec(-Scale, 7 * Scale, 2 * Scale)}

Tilts == {0, 15}

IdArgs == {PointId(n) : n \in 1..MaxIdArg}

RideProgresses == {0, Scale \div 2}

RideSpeeds == {Scale, 2 * Scale}

\* cameraTarget: << >> is null, <<v>> a vector
CameraTargets == {<< >>, <<Vec(0, 0, 0)>>}

----------------------------------------------------------------------------
\* Sequence helpers standing for the array methods the store uses

RECURSIVE SelectSeqBy(_, _)
\* Array.prototype.filter keeping the points whose id is not `id`
SelectSeqBy(s, id) ==
    IF s = << >> THEN << >>
    ELSE IF Head(s).id # id
         THEN <<Head(s)>> \o SelectSeqBy(Tail(s), id)
         ELSE SelectSeqBy(Tail(s), id)

\* Array.prototype.findIndex on the id, 1-based; 0 stands for -1
FindIndex(s, id) ==
    IF \E i \in 1..Len(s) : s[i].id = id
    THEN CHOOSE i \in 1..Len(s) : s[i].id = id /\ \A j \in 1..(i - 1) : s[j].id # id
    ELSE 0

Ids(s) == {s[i].id : i \in 1..Len(s)}

IdSeq(s) == [i \in 1..Len(s) |-> s[i].id]

----------------------------------------------------------------------------
\* THREE.Vector3 arithmetic in fixed point

\* a / b rounded to the nearest integer, b > 0
RoundDiv(a, b) ==
    IF a >= 0 THEN (2 * a + b) \div (2 * b) ELSE -((2 * (-a) + b) \div (2 * b))

RECURSIVE SqrtIter(_, _)
SqrtIter(n, r) ==
    LET r2 == (r + n \div r) \div 2
    IN  IF r2 >= r THEN r ELSE SqrtIter(n, r2)

\* Math.sqrt, rounded down
Sqrt(n) == IF n = 0 THEN 0 ELSE SqrtIter(n, n)

\* Vector3.sub
VecSub(a, b) == Vec(a.x - b.x, a.y - b.y, a.z - b.z)

\* Vector3.length, in the unit of the components
VecLength(v) == Sqrt(v.x * v.x + v.y * v.y + v.z * v.z)

\* Vector3.normalize: divideScalar(length() || 1); the result has length Scale
VecNormalize(v) ==
    LET len == VecLength(v)
    IN  IF len = 0 THEN v
        ELSE Vec(RoundDiv(v.x * Scale, len), RoundDiv(v.y * Scale, len),
                 RoundDiv(v.z * Scale, len))

\* mutant: the argument itself is stored
Clone_alias(v) == v

\* Vector3.clone: a new object with the same coordinates; no caller holds it
Clone(v) == Vec(v.x, v.y, v.z)

----------------------------------------------------------------------------
\* createLoopAtPoint: the geometry

loopRadius == 10

numLoopPoints == 16

\* Math.cos(-PI/2 + (i/numLoopPoints) * 2 PI) for i = 0 .. numLoopPoints, in hundredths
CosTable == <<0, 38, 71, 92, 100, 92, 71, 38, 0, -38, -71, -92, -100, -92, -71, -38, 0>>

\* Math.sin(-PI/2 + (i/numLoopPoints) * 2 PI) for i = 0 .. numLoopPoints, in hundredths
SinTable == <<-100, -92, -71, -38, 0, 38, 71, 92, 100, 92, 71, 38, 0, -38, -71, -92, -100>>

MathCos(i) == RoundDiv(CosTable[i + 1] * Scale, 100)

MathSin(i) == RoundDiv(SinTable[i + 1] * Scale, 100)

DefaultDirection == Vec(Scale, 0, 0)

\* mutant: the flattened direction is normalized without the length check
LoopDirection_noFallback(points, pointIndex) ==
    IF pointIndex > 1
    THEN LET pos  == points[pointIndex].position
             prev == points[pointIndex - 1].position
             d    == VecNormalize(VecSub(Clone(pos), prev))
             flat == Vec(d.x, 0, d.z)
         IN  VecNormalize(flat)
    ELSE DefaultDirection

\* the direction of the loop at 1-based index pointIndex of points
LoopDirection(points, pointIndex) ==
    IF pointIndex > 1
    THEN LET pos  == points[pointIndex].position
             prev == points[pointIndex - 1].position
             d    == VecNormalize(VecSub(Clone(pos), prev))
             flat == Vec(d.x, 0, d.z)
         IN  IF 10 * VecLength(flat) < Scale
             THEN DefaultDirection
             ELSE VecNormalize(flat)
    ELSE DefaultDirection

\* direction component times a length in fixed point
Along(component, length) == RoundDiv(component * length, Scale)

\* the position of the loop-body point of subdivision i
LoopBodyPosition(pos, direction, i) ==
    LET loopCenterForward == loopRadius * Scale
        loopCenterX == pos.x + Along(direction.x, loopCenterForward)
        loopCenterZ == pos.z + Along(direction.z, loopCenterForward)
        loopCenterY == pos.y + loopRadius * Scale
        forwardOffset == MathCos(i) * loopRadius
        heightOffset  == MathSin(i) * loopRadius
    IN  Vec(loopCenterX + Along(direction.x, forwardOffset),
            loopCenterY + heightOffset,
            loopCenterZ + Along(direction.z, forwardOffset))

\* mutant: only the first subdivision is skipped
SkipSubdivision_firstOnly(i) == i = 0

\* lines 172-173: the subdivisions that `continue` before the push
SkipSubdivision(i) == i = 0 \/ i = numLoopPoints

RECURSIVE LoopBody(_, _, _)
\* the for loop from subdivision i on: the positions it pushes, in order
LoopBody(pos, direction, i) ==
    IF i > numLoopPoints THEN << >>
    ELSE (IF SkipSubdivision(i) THEN << >>
          ELSE <<LoopBodyPosition(pos, direction, i)>>)
         \o LoopBody(pos, direction, i + 1)

\* the positions pushed to allPoints, in order
LoopPositions(pos, direction) ==
    LET exitForward == loopRadius * Scale + loopRadius * Scale
        leadIn  == Vec(pos.x + Along(direction.x, 3 * Scale),
                       pos.y + 2 * Scale,
                       pos.z + Along(direction.z, 3 * Scale))
        body    == LoopBody(pos, direction, 0)
        leadOut == Vec(pos.x + Along(direction.x, exitForward + 3 * Scale),
                       pos.y + 2 * Scale,
                       pos.z + Along(direction.z, exitForward + 3 * Scale))
        final   == Vec(pos.x + Along(direction.x, exitForward + 8 * Scale),
                       pos.y,
                       pos.z + Along(direction.z, exitForward + 8 * Scale))
    IN  <<leadIn>> \o body \o <<leadOut, final>>

\* allPoints: each position with the id `point-${++pointCounter}` and tilt 0
AllPoints(pos, direction, counter) ==
    LET ps == LoopPositions(pos, direction)
    IN  [j \in 1..Len(ps) |->
            [id |-> PointId(counter + j), position |-> ps[j], tilt |-> 0]]

\* mutant: slice(0, pointIndex) loses the anchor
Splice_dropsAnchor(points, pointIndex, allPoints) ==
    SubSeq(points, 1, pointIndex - 1) \o allPoints
        \o SubSeq(points, pointIndex + 1, Len(points))

\* slice(0, pointIndex + 1), allPoints, slice(pointIndex + 1)
Splice(points, pointIndex, allPoints) ==
    SubSeq(points, 1, pointIndex) \o allPoints \o SubSeq(points, pointIndex + 1, Len(points))

----------------------------------------------------------------------------
\* The store

\* the operation a step performed, with its arguments: the id, position,
\* number, boolean or mode it was called with
NoArgs(name) ==
    [op |-> name, id |-> NULL, position |-> << >>, num |-> 0, flag |-> FALSE,
     mode |-> NULL]

OpId(name, id) == [NoArgs(name) EXCEPT !.id = id]

OpNum(name, n) == [NoArgs(name) EXCEPT !.num = n]

OpFlag(name, b) == [NoArgs(name) EXCEPT !.flag = b]

\* every operation is one step of the explored session
Step(op) ==
    /\ opCount < MaxOps
    /\ opCount' = opCount + 1
    /\ lastOp' = op

toggles == <<isDraggingPoint, isAddingPoints, isLooped, hasChainLift,
             showWoodSupports, isNightMode>>

ride == <<mode, rideProgress, isRiding, rideSpeed>>

Init ==
    /\ mode = "build"
    /\ trackPoints = << >>
    /\ selectedPointId = NULL
    /\ rideProgress = 0
    /\ isRiding = FALSE
    /\ rideSpeed = Scale
    /\ isDraggingPoint = FALSE
    /\ isAddingPoints = TRUE
    /\ isLooped = FALSE
    /\ hasChainLift = TRUE
    /\ showWoodSupports = FALSE
    /\ isNightMode = FALSE
    /\ cameraTarget = << >>
    /\ pointCounter = 0
    /\ lastOp = NoArgs("create")
    /\ opCount = 0

setMode(m) ==
    /\ Step([NoArgs("setMode") EXCEPT !.mode = m])
    /\ mode' = m
    /\ UNCHANGED <<trackPoints, selectedPointId, rideProgress, isRiding, rideSpeed,
                   toggles, cameraTarget, pointCounter>>

setCameraTarget(target) ==
    /\ Step([NoArgs("setCameraTarget") EXCEPT !.position = target])
    /\ cameraTarget' = target
    /\ UNCHANGED <<ride, trackPoints, selectedPointId, toggles, pointCounter>>

setIsDraggingPoint(dragging) ==
    /\ Step(OpFlag("setIsDraggingPoint", dragging))
    /\ isDraggingPoint' = dragging
    /\ UNCHANGED <<ride, trackPoints, selectedPointId, isAddingPoints, isLooped,
                   hasChainLift, showWoodSupports, isNightMode, cameraTarget,
                   pointCounter>>

setIsAddingPoints(adding) ==
    /\ Step(OpFlag("setIsAddingPoints", adding))
    /\ isAddingPoints' = adding
    /\ UNCHANGED <<ride, trackPoints, selectedPointId, isDraggingPoint, isLooped,
                   hasChainLift, showWoodSupports, isNightMode, cameraTarget,
                   pointCounter>>

setIsLooped(looped) ==
    /\ Step(OpFlag("setIsLooped", looped))
    /\ isLooped' = looped
    /\ UNCHANGED <<ride, trackPoints, selectedPointId, isDraggingPoint, isAddingPoints,
                   hasChainLift, showWoodSupports, isNightMode, cameraTarget,
                   pointCounter>>

setHasChainLift(hasChain) ==
    /\ Step(OpFlag("setHasChainLift", hasChain))
    /\ hasChainLift' = hasChain
    /\ UNCHANGED <<ride, trackPoints, selectedPointId, isDraggingPoint, isAddingPoints,
                   isLooped, showWoodSupports, isNightMode, cameraTarget,
                   pointCounter>>

setShowWoodSupports(show) ==
    /\ Step(OpFlag("setShowWoodSupports", show))
    /\ showWoodSupports' = show
    /\ UNCHANGED <<ride, trackPoints, selectedPointId, isDraggingPoint, isAddingPoints,
                   isLooped, hasChainLift, isNightMode, cameraTarget, pointCounter>>

setIsNightMode(night) ==
    /\ Step(OpFlag("setIsNightMode", night))
    /\ isNightMode' = night
    /\ UNCHANGED <<ride, trackPoints, selectedPointId, isDraggingPoint, isAddingPoints,
                   isLooped, hasChainLift, showWoodSupports, cameraTarget,
                   pointCounter>>

\* mutant: the new point is put in front of the track
addTrackPoint_prepends(position) ==
    LET id == PointId(pointCounter + 1)
    IN  /\ Step([OpId("addTrackPoint", id) EXCEPT !.position = <<position>>])
        /\ pointCounter' = pointCounter + 1
        /\ trackPoints' = <<[id |-> id, position |-> Clone(position), tilt |-> 0]>>
                              \o trackPoints
        /\ UNCHANGED <<ride, selectedPointId, toggles, cameraTarget>>

\* mutant: the id is made from the length of the track instead of the counter
addTrackPoint_lengthId(position) ==
    LET id == PointId(Len(trackPoints) + 1)
    IN  /\ Step([OpId("addTrackPoint", id) EXCEPT !.position = <<position>>])
        /\ pointCounter' = pointCounter + 1
        /\ trackPoints' = Append(trackPoints,
                                 [id |-> id, position |-> Clone(position), tilt |-> 0])
        /\ UNCHANGED <<ride, selectedPointId, toggles, cameraTarget>>

addTrackPoint(position) ==
    LET id == PointId(pointCounter + 1)
    IN  /\ Step([OpId("addTrackPoint", id) EXCEPT !.position = <<position>>])
        /\ pointCounter' = pointCounter + 1
        /\ trackPoints' = Append(trackPoints,
                                 [id |-> id, position |-> Clone(position), tilt |-> 0])
        /\ UNCHANGED <<ride, selectedPointId, toggles, cameraTarget>>

\* mutant: the point is rebuilt as a new one, its tilt lost
updateTrackPoint_resetsTilt(id, position) ==
    /\ Step([OpId("updateTrackPoint", id) EXCEPT !.position = <<position>>])
    /\ trackPoints' = [i \in 1..Len(trackPoints) |->
                          IF trackPoints[i].id = id
                          THEN [id |-> id, position |-> Clone(position), tilt |-> 0]
                          ELSE trackPoints[i]]
    /\ UNCHANGED <<ride, selectedPointId, toggles, cameraTarget, pointCounter>>

updateTrackPoint(id, position) ==
    /\ Step([OpId("updateTrackPoint", id) EXCEPT !.position = <<position>>])
    /\ trackPoints' = [i \in 1..Len(trackPoints) |->
                          IF trackPoints[i].id = id
                          THEN [trackPoints[i] EXCEPT !.position = Clone(position)]
                          ELSE trackPoints[i]]
    /\ UNCHANGED <<ride, selectedPointId, toggles, cameraTarget, pointCounter>>

updateTrackPointTilt(id, tilt) ==
    /\ Step([OpId("updateTrackPointTilt", id) EXCEPT !.num = tilt])
    /\ trackPoints' = [i \in 1..Len(trackPoints) |->
                          IF trackPoints[i].id = id
                          THEN [trackPoints[i] EXCEPT !.tilt = tilt]
                          ELSE trackPoints[i]]
    /\ UNCHANGED <<ride, selectedPointId, toggles, cameraTarget, pointCounter>>

\* mutant: the selection is left as it is
removeTrackPoint_keepsSelection(id) ==
    /\ Step(OpId("removeTrackPoint", id))
    /\ trackPoints' = SelectSeqBy(trackPoints, id)
    /\ UNCHANGED <<ride, selectedPointId, toggles, cameraTarget, pointCounter>>

\* mutant: the selection is cleared whatever it was
removeTrackPoint_alwaysDeselects(id) ==
    /\ Step(OpId("removeTrackPoint", id))
    /\ trackPoints' = SelectSeqBy(trackPoints, id)
    /\ selectedPointId' = NULL
    /\ UNCHANGED <<ride, toggles, cameraTarget, pointCounter>>

removeTrackPoint(id) ==
    /\ Step(OpId("removeTrackPoint", id))
    /\ trackPoints' = SelectSeqBy(trackPoints, id)
    /\ selectedPointId' = IF selectedPointId = id THEN NULL ELSE selectedPointId
    /\ UNCHANGED <<ride, toggles, cameraTarget, pointCounter>>

\* mutant: an id is minted before the lookup, also when the id is not found
createLoopAtPoint_mintsFirst(id) ==
    LET pointIndex == FindIndex(trackPoints, id)
    IN  /\ Step(OpId("createLoopAtPoint", id))
        /\ IF pointIndex = 0
           THEN /\ pointCounter' = pointCounter + 1
                /\ UNCHANGED trackPoints
           ELSE LET pos       == trackPoints[pointIndex].position
                    direction == LoopDirection(trackPoints, pointIndex)
                    allPoints == AllPoints(pos, direction, pointCounter)
                IN  /\ trackPoints' = Splice(trackPoints, pointIndex, allPoints)
                    /\ pointCounter' = pointCounter + Len(allPoints)
        /\ UNCHANGED <<ride, selectedPointId, toggles, cameraTarget>>

createLoopAtPoint(id) ==
    LET pointIndex == FindIndex(trackPoints, id)
    IN  /\ Step(OpId("createLoopAtPoint", id))
        /\ IF pointIndex = 0
           THEN UNCHANGED <<trackPoints, pointCounter>>
           ELSE LET pos       == trackPoints[pointIndex].position
                    direction == LoopDirection(trackPoints, pointIndex)
                    allPoints == AllPoints(pos, direction, pointCounter)
                IN  /\ trackPoints' = Splice(trackPoints, pointIndex, allPoints)
                    /\ pointCounter' = pointCounter + Len(allPoints)
        /\ UNCHANGED <<ride, selectedPointId, toggles, cameraTarget>>

selectPoint(id) ==
    /\ Step(OpId("selectPoint", id))
    /\ selectedPointId' = id
    /\ UNCHANGED <<ride, trackPoints, toggles, cameraTarget, pointCounter>>

\* mutant: clearTrack also leaves ride mode
clearTrack_exitsRide ==
    /\ Step(NoArgs("clearTrack"))
    /\ trackPoints' = << >>
    /\ selectedPointId' = NULL
    /\ rideProgress' = 0
    /\ isRiding' = FALSE
    /\ mode' = "build"
    /\ UNCHANGED <<rideSpeed, toggles, cameraTarget, pointCounter>>

\* mutant: clearTrack also resets the id counter
clearTrack_resetCounter ==
    /\ Step(NoArgs("clearTrack"))
    /\ trackPoints' = << >>
    /\ selectedPointId' = NULL
    /\ rideProgress' = 0
    /\ isRiding' = FALSE
    /\ pointCounter' = 0
    /\ UNCHANGED <<mode, rideSpeed, toggles, cameraTarget>>

\* mutant: clearTrack leaves isRiding as it is
clearTrack_keepsRiding ==
    /\ Step(NoArgs("clearTrack"))
    /\ trackPoints' = << >>
    /\ selectedPointId' = NULL
    /\ rideProgress' = 0
    /\ UNCHANGED <<mode, isRiding, rideSpeed, toggles, cameraTarget, pointCounter>>

clearTrack ==
    /\ Step(NoArgs("clearTrack"))
    /\ trackPoints' = << >>
    /\ selectedPointId' = NULL
    /\ rideProgress' = 0
    /\ isRiding' = FALSE
    /\ UNCHANGED <<mode, rideSpeed, toggles, cameraTarget, pointCounter>>

setRideProgress(progress) ==
    /\ Step(OpNum("setRideProgress", progress))
    /\ rideProgress' = progress
    /\ UNCHANGED <<mode, isRiding, rideSpeed, trackPoints, selectedPointId, toggles,
                   cameraTarget, pointCounter>>

setIsRiding(riding) ==
    /\ Step(OpFlag("setIsRiding", riding))
    /\ isRiding' = riding
    /\ UNCHANGED <<mode, rideProgress, rideSpeed, trackPoints, selectedPointId, toggles,
                   cameraTarget, pointCounter>>

setRideSpeed(speed) ==
    /\ Step(OpNum("setRideSpeed", speed))
    /\ rideSpeed' = speed
    /\ UNCHANGED <<mode, rideProgress, isRiding, trackPoints, selectedPointId, toggles,
                   cameraTarget, pointCounter>>

\* mutant: the guard admits a track of one point
startRide_offByOne ==
    /\ Step(NoArgs("startRide"))
    /\ IF Len(trackPoints) >= 1
       THEN /\ mode' = "ride"
            /\ isRiding' = TRUE
            /\ rideProgress' = 0
       ELSE UNCHANGED <<mode, isRiding, rideProgress>>
    /\ UNCHANGED <<rideSpeed, trackPoints, selectedPointId, toggles, cameraTarget,
                   pointCounter>>

\* mutant: no guard at all
startRide_noGuard ==
    /\ Step(NoArgs("startRide"))
    /\ mode' = "ride"
    /\ isRiding' = TRUE
    /\ rideProgress' = 0
    /\ UNCHANGED <<rideSpeed, trackPoints, selectedPointId, toggles, cameraTarget,
                   pointCounter>>

startRide ==
    /\ Step(NoArgs("startRide"))
    /\ IF Len(trackPoints) >= 2
       THEN /\ mode' = "ride"
            /\ isRiding' = TRUE
            /\ rideProgress' = 0
       ELSE UNCHANGED <<mode, isRiding, rideProgress>>
    /\ UNCHANGED <<rideSpeed, trackPoints, selectedPointId, toggles, cameraTarget,
                   pointCounter>>

\* mutant: stopRide puts rideSpeed back to its default
stopRide_resetsSpeed ==
    /\ Step(NoArgs("stopRide"))
    /\ mode' = "build"
    /\ isRiding' = FALSE
    /\ rideProgress' = 0
    /\ rideSpeed' = Scale
    /\ UNCHANGED <<trackPoints, selectedPointId, toggles, cameraTarget, pointCounter>>

\* mutant: stopRide leaves isRiding as it is
stopRide_keepsRiding ==
    /\ Step(NoArgs("stopRide"))
    /\ mode' = "build"
    /\ rideProgress' = 0
    /\ UNCHANGED <<isRiding, rideSpeed, trackPoints, selectedPointId, toggles,
                   cameraTarget, pointCounter>>

stopRide ==
    /\ Step(NoArgs("stopRide"))
    /\ mode' = "build"
    /\ isRiding' = FALSE
    /\ rideProgress' = 0
    /\ UNCHANGED <<rideSpeed, trackPoints, selectedPointId, toggles, cameraTarget,
                   pointCounter>>

\* every store operation but selectPoint
NextButSelect ==
    \/ \E m \in CoasterMode : setMode(m)
    \/ \E target \in CameraTargets : setCameraTarget(target)
    \/ \E b \in BOOLEAN : setIsDraggingPoint(b)
    \/ \E b \in BOOLEAN : setIsAddingPoints(b)
    \/ \E b \in BOOLEAN : setIsLooped(b)
    \/ \E b \in BOOLEAN : setHasChainLift(b)
    \/ \E b \in BOOLEAN : setShowWoodSupports(b)
    \/ \E b \in BOOLEAN : setIsNightMode(b)
    \/ \E position \in Positions : addTrackPoint(position)
    \/ \E id \in IdArgs, position \in Positions : updateTrackPoint(id, position)
    \/ \E id \in IdArgs, tilt \in Tilts : updateTrackPointTilt(id, tilt)
    \/ \E id \in IdArgs : removeTrackPoint(id)
    \/ \E id \in IdArgs : createLoopAtPoint(id)
    \/ clearTrack
    \/ \E progress \in RideProgresses : setRideProgress(progress)
    \/ \E b \in BOOLEAN : setIsRiding(b)
    \/ \E speed \in RideSpeeds : setRideSpeed(speed)
    \/ startRide
    \/ stopRide

Next ==
    \/ NextButSelect
    \/ \E id \in IdArgs \cup {NULL} : selectPoint(id)

Spec == Init /\ [][Next]_vars

----------------------------------------------------------------------------
\* Helpers of the properties

\* the fields other than the track
session == <<mode, selectedPointId, rideProgress, isRiding, rideSpeed, toggles,
             cameraTarget>>

RECURSIVE KeepIds(_, _)
\* the ids of s that are in S, in the order of s
KeepIds(s, S) ==
    IF s = << >> THEN << >>
    ELSE IF Head(s).id \in S
         THEN <<Head(s).id>> \o KeepIds(Tail(s), S)
         ELSE KeepIds(Tail(s), S)

Shifted(p, dx, dy, dz) == Vec(p.x + dx * Scale, p.y + dy * Scale, p.z + dz * Scale)

\* mode = ride and isRiding only over a path of at least 2 points
RideHasPath == (mode = "ride" /\ isRiding) => Len(trackPoints) >= 2

----------------------------------------------------------------------------
\* C1: in every reachable state no two points of trackPoints have the same id.
UniqueIds ==
    \A i, j \in 1..Len(trackPoints) :
        i # j => trackPoints[i].id # trackPoints[j].id

\* a track built by addTrackPoint and createLoopAtPoint after a removal
UniqueIdsWitness ==
    /\ lastOp.op = "createLoopAtPoint"
    /\ Len(trackPoints) = 19
    /\ pointCounter = 20

\* C2: the counter never decreases, every id that enters the track is
\* `point-n` for an n above every n issued before the step (so it differs from
\* every id issued earlier, the ids of deleted points included), the ids in
\* the track are issued ones, the points that stay keep their ids and order,
\* and the operations that neither insert nor delete leave the ids as they are.
IdsNeverReused ==
    [][/\ pointCounter' >= pointCounter
       /\ Ids(trackPoints) \subseteq {PointId(n) : n \in 1..pointCounter}
       /\ \A id \in Ids(trackPoints') \ Ids(trackPoints) :
              \E n \in (pointCounter + 1)..pointCounter' : id = PointId(n)
       /\ KeepIds(trackPoints', Ids(trackPoints)) = KeepIds(trackPoints, Ids(trackPoints'))
       /\ lastOp'.op \notin {"addTrackPoint", "createLoopAtPoint", "removeTrackPoint",
                             "clearTrack"}
              => IdSeq(trackPoints') = IdSeq(trackPoints)]_vars

\* a point added after clearTrack emptied a track of two points
IdsNeverReusedWitness ==
    /\ lastOp.op = "addTrackPoint"
    /\ pointCounter = 3
    /\ IdSeq(trackPoints) = <<PointId(3)>>

\* C3: startRide with fewer than 2 points changes nothing; with at least 2
\* points it sets mode = ride, isRiding = true, rideProgress = 0 and nothing else.
StartRideGuarded ==
    [][lastOp'.op = "startRide" =>
          IF Len(trackPoints) < 2
          THEN UNCHANGED <<store, pointCounter>>
          ELSE /\ mode' = "ride"
               /\ isRiding' = TRUE
               /\ rideProgress' = 0
               /\ UNCHANGED <<trackPoints, selectedPointId, rideSpeed, toggles,
                              cameraTarget, pointCounter>>]_vars

\* startRide accepted on a track of 2 points with a non-default rideSpeed
StartRideGuardedWitness ==
    /\ lastOp.op = "startRide"
    /\ mode = "ride" /\ isRiding /\ rideProgress = 0
    /\ Len(trackPoints) = 2
    /\ rideSpeed = 2 * Scale

\* C4 as claimed: in every reachable state, mode = ride and isRiding imply a
\* track of at least 2 points.
RideImpliesTwoPoints == RideHasPath

\* C4 as amended: the implication holds initially and every operation other
\* than removeTrackPoint, setMode and setIsRiding preserves it.
RidePathPreserved ==
    [][(RideHasPath /\ lastOp'.op \notin {"removeTrackPoint", "setMode", "setIsRiding"})
          => RideHasPath']_vars

\* a ride in progress over 3 points, the last one added during the ride
RidePathPreservedWitness ==
    /\ lastOp.op = "addTrackPoint"
    /\ mode = "ride" /\ isRiding
    /\ Len(trackPoints) = 3

\* C5 as claimed: in every reachable state isRiding implies mode = ride.
RidingImpliesRideMode == isRiding => mode = "ride"

\* C5 as amended: the implication holds initially and every operation other
\* than setMode and setIsRiding preserves it.
RidingModePreserved ==
    [][((isRiding => mode = "ride") /\ lastOp'.op \notin {"setMode", "setIsRiding"})
          => (isRiding' => mode' = "ride")]_vars

\* a ride started and then stopped: isRiding went true and back with the mode
RidingModePreservedWitness ==
    /\ lastOp.op = "stopRide"
    /\ opCount = 4
    /\ Len(trackPoints) = 2
    /\ mode = "build" /\ ~isRiding

\* C6 as claimed: a step from mode # ride to mode = ride is a startRide step
\* taken with at least 2 points.
RideEnteredOnlyByStartRide ==
    [][(mode # "ride" /\ mode' = "ride")
          => (lastOp'.op = "startRide" /\ Len(trackPoints) >= 2)]_vars

\* C6 as amended: a step from mode # ride to mode = ride is a startRide step
\* taken with at least 2 points or a setMode("ride") step.
RideEnteredByStartRideOrSetMode ==
    [][(mode # "ride" /\ mode' = "ride")
          => \/ lastOp'.op = "startRide" /\ Len(trackPoints) >= 2
             \/ lastOp'.op = "setMode" /\ lastOp'.mode = "ride"]_vars

\* ride entered by startRide as the fourth operation of the session
RideEnteredWitness ==
    /\ lastOp.op = "startRide"
    /\ mode = "ride"
    /\ opCount = 4
    /\ Len(trackPoints) = 2
    /\ rideSpeed = Scale

\* C7: removeTrackPoint(id) with an id that matches no point leaves the whole
\* state unchanged, selectedPointId included.
RemoveMissingIsNoOp ==
    [][(lastOp'.op = "removeTrackPoint" /\ lastOp'.id \notin Ids(trackPoints))
          => UNCHANGED <<store, pointCounter>>]_vars

\* C8: updateTrackPoint, updateTrackPointTilt and createLoopAtPoint with an id
\* that matches no point leave the whole state unchanged and mint no id.
MissingIdIsNoOp ==
    [][(/\ lastOp'.op \in {"updateTrackPoint", "updateTrackPointTilt",
                           "createLoopAtPoint"}
        /\ lastOp'.id \notin Ids(trackPoints))
          => UNCHANGED <<store, pointCounter>>]_vars

\* createLoopAtPoint on the id of a removed point, the track not empty
MissingIdIsNoOpWitness ==
    /\ lastOp.op = "createLoopAtPoint"
    /\ lastOp.id = PointId(1)
    /\ IdSeq(trackPoints) = <<PointId(2)>>
    /\ pointCounter = 2

\* C9: createLoopAtPoint on the point at index k keeps the points up to k and
\* the points after k as they are, puts exactly 18 points with tilt 0 and ids
\* not in the old track between them, and changes no other field.
LoopOnlyInserts ==
    [][(lastOp'.op = "createLoopAtPoint" /\ lastOp'.id \in Ids(trackPoints)) =>
          LET k == FindIndex(trackPoints, lastOp'.id)
              n == Len(trackPoints)
          IN  /\ Len(trackPoints') = n + 18
              /\ SubSeq(trackPoints', 1, k) = SubSeq(trackPoints, 1, k)
              /\ SubSeq(trackPoints', k + 19, n + 18) = SubSeq(trackPoints, k + 1, n)
              /\ \A j \in (k + 1)..(k + 18) :
                     /\ trackPoints'[j].tilt = 0
                     /\ trackPoints'[j].id \notin Ids(trackPoints)
              /\ UNCHANGED session]_vars

\* a loop made at the middle point of three
LoopOnlyInsertsWitness ==
    /\ lastOp.op = "createLoopAtPoint"
    /\ Len(trackPoints) = 21
    /\ FindIndex(trackPoints, lastOp.id) = 2

\* C10: a loop at index 0 with position p inserts, in order, a lead-in at
\* p + (3, 2, 0), 15 body points on the circle of radius 10 around
\* p + (10, 10, 0) in the plane of p.z, none of them at the skipped
\* subdivisions' place p + (10, 0, 0), the one of i = 8 at p + (10, 20, 0),
\* then a lead-out at p + (23, 2, 0) and a final point at p + (28, 0, 0).
LoopLayoutDefault ==
    [][(lastOp'.op = "createLoopAtPoint" /\ FindIndex(trackPoints, lastOp'.id) = 1) =>
          LET p == trackPoints[1].position
              run(j) == trackPoints'[1 + j].position
              r2(q) == (q.x - p.x - 10 * Scale) * (q.x - p.x - 10 * Scale)
                       + (q.y - p.y - 10 * Scale) * (q.y - p.y - 10 * Scale)
              R2 == 10 * Scale * 10 * Scale
          IN  /\ Len(trackPoints') = Len(trackPoints) + 18
              /\ run(1) = Shifted(p, 3, 2, 0)
              /\ \A j \in 2..16 :
                     /\ run(j).z = p.z
                     /\ 50 * r2(run(j)) >= 49 * R2 /\ 50 * r2(run(j)) <= 51 * R2
                     /\ run(j) # Shifted(p, 10, 0, 0)
              /\ run(9) = Shifted(p, 10, 20, 0)
              /\ run(17) = Shifted(p, 23, 2, 0)
              /\ run(18) = Shifted(p, 28, 0, 0)]_vars

\* a loop made at the first point, which is off the origin in y and z
LoopLayoutDefaultWitness ==
    /\ lastOp.op = "createLoopAtPoint"
    /\ Len(trackPoints) >= 19
    /\ trackPoints[1].id = lastOp.id
    /\ trackPoints[1].position = Vec(0, 4 * Scale, -3 * Scale)

\* C11: in track order the body point on the back side of the loop (at centre
\* height, horizontally nearer the anchor than the centre) comes before the
\* top point, and the top point before the body point on the front side (at
\* centre height, horizontally farther from the anchor than the centre).
LoopBackTopFront ==
    [][(lastOp'.op = "createLoopAtPoint" /\ lastOp'.id \in Ids(trackPoints)) =>
          LET k == FindIndex(trackPoints, lastOp'.id)
              p == trackPoints[k].position
              run(j) == trackPoints'[k + j].position
              far2(q) == (q.x - p.x) * (q.x - p.x) + (q.z - p.z) * (q.z - p.z)
              R2 == loopRadius * Scale * loopRadius * Scale
              AtCentreHeight(q) == q.y = p.y + loopRadius * Scale
              Back(q)  == AtCentreHeight(q) /\ far2(q) < R2
              Front(q) == AtCentreHeight(q) /\ far2(q) > R2
              Top(q)   == q.y = p.y + 2 * loopRadius * Scale
          IN  \E jb, jt, jf \in 2..16 :
                  /\ jb < jt /\ jt < jf
                  /\ Back(run(jb)) /\ Top(run(jt)) /\ Front(run(jf))]_vars

\* the coordinates of a Vector3, whichever object holds them
Coordinates(v) == Vec(v.x, v.y, v.z)

\* C12: removeTrackPoint(id) with id in the track takes out exactly the point
\* of that id and leaves the others as they are, in order; selectedPointId
\* becomes null if it was id and is unchanged otherwise; nothing else changes.
RemoveTakesOnePoint ==
    [][(lastOp'.op = "removeTrackPoint" /\ lastOp'.id \in Ids(trackPoints)) =>
          LET k == FindIndex(trackPoints, lastOp'.id)
              n == Len(trackPoints)
          IN  /\ Len(trackPoints') = n - 1
              /\ trackPoints' = SubSeq(trackPoints, 1, k - 1) \o SubSeq(trackPoints, k + 1, n)
              /\ selectedPointId' = IF selectedPointId = lastOp'.id
                                    THEN NULL ELSE selectedPointId
              /\ UNCHANGED <<ride, toggles, cameraTarget, pointCounter>>]_vars

\* the first of two points removed while the second one stays selected
RemoveTakesOnePointWitness ==
    /\ lastOp.op = "removeTrackPoint"
    /\ lastOp.id = PointId(1)
    /\ IdSeq(trackPoints) = <<PointId(2)>>
    /\ selectedPointId = PointId(2)

\* C14: updateTrackPoint(id, p) with id in the track gives that point the
\* coordinates of p and updateTrackPointTilt(id, t) gives it the tilt t; the
\* point's other fields, every other point, the order and every other field
\* of the store are unchanged.
UpdateChangesOneField ==
    [][/\ (lastOp'.op = "updateTrackPoint" /\ lastOp'.id \in Ids(trackPoints)) =>
              LET k == FindIndex(trackPoints, lastOp'.id)
              IN  /\ trackPoints' = [trackPoints EXCEPT
                                        ![k].position = Coordinates(lastOp'.position[1])]
                  /\ UNCHANGED <<session, pointCounter>>
       /\ (lastOp'.op = "updateTrackPointTilt" /\ lastOp'.id \in Ids(trackPoints)) =>
              LET k == FindIndex(trackPoints, lastOp'.id)
              IN  /\ trackPoints' = [trackPoints EXCEPT ![k].tilt = lastOp'.num]
                  /\ UNCHANGED <<session, pointCounter>>]_vars

\* a tilted point moved: the tilt is kept, the position is the new one
UpdateChangesOneFieldWitness ==
    /\ lastOp.op = "updateTrackPoint"
    /\ Len(trackPoints) = 2
    /\ trackPoints[2].id = lastOp.id
    /\ trackPoints[2].tilt = 15
    /\ trackPoints[2].position = Vec(5 * Scale, 0, 0)

\* C15: addTrackPoint appends exactly one point, at the end, with tilt 0 and
\* the given coordinates; createLoopAtPoint with a present id adds 18 points,
\* removeTrackPoint with a present id takes away 1, clearTrack leaves 0, and
\* every other call leaves the length as it is.  (So the length is the number
\* of adds plus 18 times the loops minus the removals since the last clear.)
LengthAccounting ==
    [][LET n  == Len(trackPoints)
           op == lastOp'.op
           present == lastOp'.id \in Ids(trackPoints)
       IN  /\ op = "addTrackPoint" =>
                  /\ SubSeq(trackPoints', 1, n) = trackPoints
                  /\ Len(trackPoints') = n + 1
                  /\ trackPoints'[n + 1].tilt = 0
                  /\ trackPoints'[n + 1].position = Coordinates(lastOp'.position[1])
           /\ (op = "createLoopAtPoint" /\ present) => Len(trackPoints') = n + 18
           /\ (op = "removeTrackPoint" /\ present) => Len(trackPoints') = n - 1
           /\ op = "clearTrack" => Len(trackPoints') = 0
           /\ (\/ op \notin {"addTrackPoint", "createLoopAtPoint", "removeTrackPoint",
                             "clearTrack"}
               \/ (op \in {"createLoopAtPoint", "removeTrackPoint"} /\ ~present))
                  => Len(trackPoints') = n]_vars

\* a point added behind a loop: 1 + 18 + 1 points
LengthAccountingWitness ==
    /\ lastOp.op = "addTrackPoint"
    /\ Len(trackPoints) = 20
    /\ trackPoints[20].id = lastOp.id

\* C16: clearTrack gives an empty track, selectedPointId = null,
\* rideProgress = 0 and isRiding = false and leaves mode, rideSpeed, the
\* toggles and cameraTarget unchanged.
ClearTrackFrame ==
    [][lastOp'.op = "clearTrack" =>
          /\ trackPoints' = << >>
          /\ selectedPointId' = NULL
          /\ rideProgress' = 0
          /\ isRiding' = FALSE
          /\ UNCHANGED <<mode, rideSpeed, toggles, cameraTarget>>]_vars

\* the track cleared during a ride: the mode stays ride
ClearTrackFrameWitness ==
    /\ lastOp.op = "clearTrack"
    /\ mode = "ride"
    /\ pointCounter = 2
    /\ trackPoints = << >> /\ ~isRiding

\* C17: stopRide gives mode = build, isRiding = false and rideProgress = 0
\* whatever they were and leaves the other fields unchanged; neither startRide
\* nor stopRide changes rideSpeed.
StopRideFrame ==
    [][/\ lastOp'.op = "stopRide" =>
              /\ mode' = "build"
              /\ isRiding' = FALSE
              /\ rideProgress' = 0
              /\ UNCHANGED <<trackPoints, selectedPointId, rideSpeed, toggles,
                             cameraTarget, pointCounter>>
       /\ lastOp'.op \in {"startRide", "stopRide"} => rideSpeed' = rideSpeed]_vars

\* stopRide with a non-default rideSpeed and a selection
StopRideFrameWitness ==
    /\ lastOp.op = "stopRide"
    /\ rideSpeed = 2 * Scale
    /\ selectedPointId = PointId(1)
    /\ mode = "build"

----------------------------------------------------------------------------
\* The store under callers that select only null or a point of the track

\* the ids a well-behaved caller selects: null or a point that is in the track
ExistingIdArgs == (IdArgs \cap Ids(trackPoints)) \cup {NULL}

NextValidSelect ==
    \/ NextButSelect
    \/ \E id \in ExistingIdArgs : selectPoint(id)

SpecValidSelect == Init /\ [][NextValidSelect]_vars

\* C13: when selectPoint is only called with null or the id of a point in the
\* track, selectedPointId is null or the id of a point in the track in every
\* reachable state.
SelectionNeverDangles ==
    selectedPointId = NULL \/ selectedPointId \in Ids(trackPoints)

\* the selected point stays selected while the other point is removed
SelectionNeverDanglesWitness ==
    /\ lastOp.op = "removeTrackPoint"
    /\ lastOp.id = PointId(2)
    /\ selectedPointId = PointId(1)
    /\ IdSeq(trackPoints) = <<PointId(1)>>

----------------------------------------------------------------------------
\* The store and a caller that writes into the Vector3 objects it passed

\* whether the Vector3 v is the caller's object ref
IsCallerObject(v, ref) == "ref" \in DOMAIN v /\ v.ref = ref

\* Vector3.set on the caller's object: every holder of that object sees it
mutateCallerVector(object, to) ==
    /\ Step([NoArgs("mutateCallerVector") EXCEPT
                !.position = <<CallerVector(object.ref, to.x, to.y, to.z)>>])
    /\ trackPoints' = [i \in 1..Len(trackPoints) |->
                          IF IsCallerObject(trackPoints[i].position, object.ref)
                          THEN [trackPoints[i] EXCEPT
                                   !.position = CallerVector(object.ref, to.x, to.y, to.z)]
                          ELSE trackPoints[i]]
    /\ UNCHANGED <<ride, selectedPointId, toggles, cameraTarget, pointCounter>>

NextCaller ==
    \/ Next
    \/ \E object \in Positions, to \in CallerMutations : mutateCallerVector(object, to)

SpecCaller == Init /\ [][NextCaller]_vars

\* C18: no point of the store holds a Vector3 object of the caller (so no two
\* points hold the same caller object), and a caller writing into an object it
\* passed to addTrackPoint or updateTrackPoint changes nothing in the store.
StoredPositionsNotAliased ==
    [][/\ \A i \in 1..Len(trackPoints') : "ref" \notin DOMAIN trackPoints'[i].position
       /\ \A i, j \in 1..Len(trackPoints') :
              \A object \in Positions :
                  (/\ IsCallerObject(trackPoints'[i].position, object.ref)
                   /\ IsCallerObject(trackPoints'[j].position, object.ref)) => i = j
       /\ lastOp'.op = "mutateCallerVector" => UNCHANGED <<store, pointCounter>>]_vars

\* the caller wrote into the object it had passed for a point, which keeps
\* the coordinates it was given
StoredPositionsNotAliasedWitness ==
    /\ lastOp.op = "mutateCallerVector"
    /\ lastOp.position[1].ref = 2
    /\ Len(trackPoints) = 2
    /\ trackPoints[1].position = Vec(5 * Scale, 0, 0)
    /\ trackPoints[2].position = Vec(5 * Scale, 0, 0)

----------------------------------------------------------------------------
\* createLoopAtPoint on tracks of two points placed anywhere in LoopInputs

\* positions of the two points: on the axes, above one another, diagonal
LoopInputs == {CallerVector(1, 0, 0, 0), CallerVector(2, 5 * Scale, 0, 0),
               CallerVector(3, 0, 4 * Scale, 0), CallerVector(4, 0, 0, -6 * Scale),
               CallerVector(5, 3 * Scale, 0, 4 * Scale),
               CallerVector(6, 5 * Scale, 4 * Scale, 0)}

\* the store after addTrackPoint(p1), addTrackPoint(p2) from the initial state
InitLoop ==
    \E p1, p2 \in LoopInputs :
        /\ mode = "build"
        /\ trackPoints = <<[id |-> PointId(1), position |-> Clone(p1), tilt |-> 0],
                           [id |-> PointId(2), position |-> Clone(p2), tilt |-> 0]>>
        /\ selectedPointId = NULL
        /\ rideProgress = 0
        /\ isRiding = FALSE
        /\ rideSpeed = Scale
        /\ isDraggingPoint = FALSE
        /\ isAddingPoints = TRUE
        /\ isLooped = FALSE
        /\ hasChainLift = TRUE
        /\ showWoodSupports = FALSE
        /\ isNightMode = FALSE
        /\ cameraTarget = << >>
        /\ pointCounter = 2
        /\ lastOp = [OpId("addTrackPoint", PointId(2)) EXCEPT !.position = <<p2>>]
        /\ opCount = 2

NextLoop == \E id \in IdArgs : createLoopAtPoint(id)

SpecLoop == InitLoop /\ [][NextLoop]_vars

Sign(n) == IF n > 0 THEN 1 ELSE IF n < 0 THEN -1 ELSE 0

\* C19: the loop at index 0, or behind a predecessor with the anchor's x and
\* z, runs along (1, 0, 0); behind a predecessor that differs from the anchor
\* along one horizontal axis only it runs along that axis, away from the
\* predecessor (lead-in 3 ahead and 2 up, final point 28 ahead at the anchor's
\* height); and the heights of the 18 inserted points above the anchor are
\* those of the default loop, whatever the direction.
LoopDirectionCases ==
    [][(lastOp'.op = "createLoopAtPoint" /\ lastOp'.id \in Ids(trackPoints)) =>
          LET k == FindIndex(trackPoints, lastOp'.id)
              p == trackPoints[k].position
              q == trackPoints[k - 1].position
              run(j) == trackPoints'[k + j].position
              RunsAlong(dx, dz) ==
                  /\ run(1) = Shifted(p, 3 * dx, 2, 3 * dz)
                  /\ run(18) = Shifted(p, 28 * dx, 0, 28 * dz)
              default == LoopPositions(Vec(0, 0, 0), DefaultDirection)
          IN  /\ k = 1 => RunsAlong(1, 0)
              /\ (k > 1 /\ q.x = p.x /\ q.z = p.z) => RunsAlong(1, 0)
              /\ (k > 1 /\ q.y = p.y /\ q.z = p.z /\ q.x # p.x)
                     => RunsAlong(Sign(p.x - q.x), 0)
              /\ (k > 1 /\ q.y = p.y /\ q.x = p.x /\ q.z # p.z)
                     => RunsAlong(0, Sign(p.z - q.z))
              /\ \A j \in 1..18 : run(j).y - p.y = default[j].y]_vars

\* a loop at the second point, whose predecessor is at larger x: it runs
\* along (-1, 0, 0)
LoopDirectionCasesWitness ==
    /\ lastOp.op = "createLoopAtPoint"
    /\ lastOp.id = PointId(2)
    /\ Len(trackPoints) = 20
    /\ trackPoints[1].position = Vec(5 * Scale, 0, 0)
    /\ trackPoints[2].position = Vec(0, 0, 0)
    /\ trackPoints[3].position = Vec(-3 * Scale, 2 * Scale, 0)
    /\ trackPoints[20].position = Vec(-28 * Scale, 0, 0)

----------------------------------------------------------------------------
\* GameUI: the controls the panel offers on the store

\* mutant: Start Ride is enabled from the first point on
canRide_one == Len(trackPoints) >= 1

canRide == Len(trackPoints) >= 2

\* values of the range input: min 0.5, max 3, step 0.25
SliderValues == {Scale \div 2 + k * (Scale \div 4) : k \in 0..10}

clickStartRide ==
    /\ mode = "build"
    /\ canRide
    /\ startRide

clickClearTrack ==
    /\ mode = "build"
    /\ Len(trackPoints) # 0
    /\ clearTrack

clickDeleteSelectedPoint ==
    /\ mode = "build"
    /\ selectedPointId # NULL
    /\ removeTrackPoint(selectedPointId)

changeRideSpeed(value) ==
    /\ mode = "build"
    /\ setRideSpeed(value)

clickExitRide ==
    /\ mode = "ride"
    /\ stopRide

NextUI ==
    \/ \E position \in Positions : addTrackPoint(position)
    \/ \E id \in ExistingIdArgs : selectPoint(id)
    \/ clickStartRide
    \/ clickClearTrack
    \/ clickDeleteSelectedPoint
    \/ \E value \in SliderValues : changeRideSpeed(value)
    \/ clickExitRide

SpecUI == Init /\ [][NextUI]_vars

\* C20: under the controls GameUI offers, with points added and existing
\* points selected at any time, every click on Start Ride leaves the store in
\* ride mode, the mode is build or ride, isRiding holds exactly in ride mode,
\* and ride mode implies a track of at least 2 points.
GameUIGuard ==
    /\ lastOp.op = "startRide" => mode = "ride"
    /\ mode \in {"build", "ride"}
    /\ isRiding <=> mode = "ride"
    /\ mode = "ride" => Len(trackPoints) >= 2

\* Start Ride clicked on a two-point track with a point selected
GameUIGuardWitness ==
    /\ lastOp.op = "startRide"
    /\ mode = "ride"
    /\ isRiding
    /\ Len(trackPoints) = 2
    /\ selectedPointId # NULL

====
